---- MODULE Spec2Model ----
(***************************************************************************)
(* Model of the notebook pagination engine of study-baddie-ai              *)
(* (src/components/Notebook.tsx) and of the handlers of src/App.tsx that   *)
(* feed it and consume its page list.                                      *)
(*                                                                         *)
(* A DOM node is a record [tag, id, own, mt, mb, kids, units]:             *)
(*   tag   "#text" for a text node, the element's tagName otherwise        *)
(*   id    identity of a source element (0 for text nodes)                 *)
(*   own   the height of the element's own box (replaced content, fixed    *)
(*         height); 0 for the elements react-markdown renders from text    *)
(*   mt,mb computed top and bottom margin in px                            *)
(*   kids  child nodes of an element                                       *)
(*   units the characters of a text node, grouped in maximal runs: an odd  *)
(*         number is a word, an even number a run of whitespace            *)
(* The layout engine is an input of the program.  The model's engine lays  *)
(* every word on a line of its own, stacks the children of an element,     *)
(* and answers 0 for a node that is not in the document.                   *)
(***************************************************************************)
EXTENDS Integers, Sequences, FiniteSets, TLC

(* ---------------------------------------------------------------- bounds *)
MaxBlocks == 2          \* top-level blocks of a summary in SpecAlloc
MaxTriggers == 3        \* effect runs (mount included) in one behaviour
MaxCards == 2           \* cards.length of a FlashcardRunner
MaxPending == 2         \* pending setTimeout callbacks of a FlashcardRunner
MaxDocs == 2            \* files chosen in the upload view in one behaviour
MaxRegens == 2          \* regenerate requests in one behaviour

(* ------------------------------------------------------ program constants *)
MAX_PAGE_HEIGHT == 760
AllocThreshold == 40
SplitThreshold == 20
LineHeight == 32
MarginP == 24
MarginHTop == 24
MarginHBottom == 16
SpaceY == 4

Null == [tag |-> "null", id |-> 0, own |-> 0, mt |-> 0, mb |-> 0,
         kids |-> <<>>, units |-> <<>>]

TextNode(units) ==
    [tag |-> "#text", id |-> 0, own |-> 0, mt |-> 0, mb |-> 0,
     kids |-> <<>>, units |-> units]

Element(tag, id, own, mt, mb, kids) ==
    [tag |-> tag, id |-> id, own |-> own, mt |-> mt, mb |-> mb,
     kids |-> kids, units |-> <<>>]

IsText(n) == n.tag = "#text"

IsSpace(u) == u # 0 /\ u % 2 = 0
IsWord(u) == u % 2 = 1

(* textContent.split(/(\s+)/): words and whitespace runs alternate, with an *)
(* empty string (0) in front of a leading and behind a trailing run.        *)
SplitWords(units) ==
    IF units = <<>> THEN <<0>>
    ELSE (IF IsSpace(units[1]) THEN <<0>> ELSE <<>>)
         \o units
         \o (IF IsSpace(units[Len(units)]) THEN <<0>> ELSE <<>>)

(* words.join(''): the empty strings vanish. *)
JoinWords(words) == SelectSeq(words, LAMBDA w : w # 0)

WordCount(units) == Cardinality({i \in 1..Len(units) : IsWord(units[i])})

(* offsetHeight of a node that is laid out in the hidden container. *)
RECURSIVE OffsetHeight(_)
RECURSIVE ContentHeight(_)
OffsetHeight(n) ==
    IF IsText(n) THEN LineHeight * WordCount(n.units)
    ELSE n.own + ContentHeight(n.kids)

ContentHeight(kids) ==
    IF kids = <<>> THEN 0
    ELSE LET k == kids[1]
         IN (IF IsText(k) THEN OffsetHeight(k)
             ELSE k.mt + OffsetHeight(k) + k.mb)
            + ContentHeight(Tail(kids))

(* node.cloneNode(false) with the inward margin zeroed, holding `kids`. *)
Clone1(node, kids) == [node EXCEPT !.mb = 0, !.kids = kids]
Clone2(node, kids) == [node EXCEPT !.mt = 0, !.kids = kids]

(* The container's offsetHeight with words[1..i] in the temporary text node. *)
HeightWithText(container, words, i) ==
    OffsetHeight([container EXCEPT
        !.kids = Append(@, TextNode(JoinWords(SubSeq(words, 1, i))))])

(* The scan stopping one word after the first overflow. *)
FirstOverflowLate(words, maxLimit, container) ==
    LET over == {i \in 1..Len(words) :
                    HeightWithText(container, words, i) > maxLimit}
    IN IF over = {} THEN 0
       ELSE LET first == CHOOSE i \in over : \A k \in over : i <= k
            IN IF first < Len(words) THEN first + 1 ELSE first

(* The index (from 1) of the first word whose addition to the temporary     *)
(* text node makes the container taller than maxLimit; 0 when there is none.*)
(* The loop stops at the first such word; the height never shrinks as the   *)
(* text grows, so that is the least index with an overflow.                 *)
FirstOverflow(words, maxLimit, container) ==
    LET over == {i \in 1..Len(words) :
                    HeightWithText(container, words, i) > maxLimit}
    IN IF over = {} THEN 0
       ELSE CHOOSE i \in over : \A k \in over : i <= k

(* splitTextNode with the second part sliced one word late. *)
splitTextNodeDropsWord(textNode, maxLimit, container) ==
    LET words == SplitWords(textNode.units)
        splitIndex == FirstOverflow(words, maxLimit, container)
    IN IF splitIndex # 0
       THEN <<TextNode(JoinWords(SubSeq(words, 1, splitIndex - 1))),
              TextNode(JoinWords(SubSeq(words, splitIndex + 1, Len(words))))>>
       ELSE IF Len(words) > 0
            THEN <<Null, TextNode(JoinWords(words))>>
            ELSE <<Null, Null>>

splitTextNode(textNode, maxLimit, container) ==
    LET words == SplitWords(textNode.units)
        splitIndex == FirstOverflow(words, maxLimit, container)
    IN IF splitIndex # 0
       THEN <<TextNode(JoinWords(SubSeq(words, 1, splitIndex - 1))),
              TextNode(JoinWords(SubSeq(words, splitIndex, Len(words))))>>
       ELSE IF Len(words) > 0
            THEN <<Null, TextNode(JoinWords(words))>>
            ELSE <<Null, Null>>

(* isSplittable without the list of kinds. *)
IsSplittableAnyChild(child) == TRUE

IsSplittableChild(child) ==
    IsText(child) \/ child.tag \in {"P", "DIV", "BLOCKQUOTE", "LI"}

(* parent.appendChild(n) and parent.removeChild(n) on the children of a    *)
(* parent.  The node removed is the one appended last.                     *)
AppendChild(s, n) == Append(s, n)

(* removeChild that takes nothing away. *)
RemoveNothing(s, n) == s

RemoveChild(s, n) ==
    LET idx == {i \in 1..Len(s) : s[i] = n}
        last == CHOOSE i \in idx : \A k \in idx : k <= i
    IN IF idx = {} THEN s
       ELSE SubSeq(s, 1, last - 1) \o SubSeq(s, last + 1, Len(s))

(* document.createTextNode('') of splitTextNode, as the node that is        *)
(* appended to and removed from the container.                              *)
TempText == [TextNode(<<>>) EXCEPT !.id = -1]

(* clone1 as splitNode appends it to and removes it from the hidden         *)
(* container.                                                               *)
TempClone(node) == Clone1(node, <<>>)

RECURSIVE SplitNodeOn(_, _, _)
RECURSIVE SplitChildren(_, _, _, _, _, _, _)

(* The loop of splitNode over node.childNodes from child i on: c1 and c2 are *)
(* the children of clone1 and clone2 so far, s the children of the hidden   *)
(* container.                                                               *)
SplitChildren(s, node, maxLimit, i, c1, c2, overflowed) ==
    IF i > Len(node.kids) THEN <<c1, c2, s>>
    ELSE
    LET child == node.kids[i]
    IN IF overflowed
       THEN SplitChildren(s, node, maxLimit, i + 1, c1, Append(c2, child),
                          TRUE)
       ELSE
       IF OffsetHeight(Clone1(node, Append(c1, child))) > maxLimit
       THEN LET currentHeight == OffsetHeight(Clone1(node, c1))
                remainingSpace == maxLimit - currentHeight
            IN IF IsSplittableChild(child) /\ remainingSpace > SplitThreshold
               THEN LET kept == IF IsText(child)
                                THEN RemoveChild(AppendChild(c1, TempText),
                                                 TempText)
                                ELSE c1
                    IN CHOOSE r \in
                       { LET part1 == parts[1]
                             part2 == parts[2]
                             h1 == IF part1 # Null THEN Append(kept, part1)
                                   ELSE kept
                         IN IF part2 # Null
                            THEN SplitChildren(parts[3], node, maxLimit,
                                               i + 1, h1, Append(c2, part2),
                                               TRUE)
                            ELSE IF part1 = Null
                                 THEN SplitChildren(parts[3], node, maxLimit,
                                                    i + 1, h1,
                                                    Append(c2, child), TRUE)
                                 ELSE SplitChildren(parts[3], node, maxLimit,
                                                    i + 1, h1, c2, FALSE)
                         : parts \in
                             { IF IsText(child)
                               THEN splitTextNode(child,
                                        remainingSpace + currentHeight,
                                        Clone1(node, c1))
                                    \o <<s>>
                               ELSE SplitNodeOn(s, child, remainingSpace) }
                       } : TRUE
               ELSE SplitChildren(s, node, maxLimit, i + 1, c1,
                                  Append(c2, child), TRUE)
       ELSE SplitChildren(s, node, maxLimit, i + 1, Append(c1, child), c2,
                          FALSE)

(* splitNode(node, maxLimit) run with s as the children of the hidden       *)
(* container: its two results and the children it leaves there.             *)
SplitNodeOn(s, node, maxLimit) ==
    CHOOSE r \in
    { LET res1 == IF cs[1] # <<>> THEN Clone1(node, cs[1]) ELSE Null
          res2 == IF cs[2] # <<>> THEN Clone2(node, cs[2]) ELSE Null
      IN <<res1, res2, RemoveChild(cs[3], TempClone(node))>>
      : cs \in { SplitChildren(AppendChild(s, TempClone(node)), node,
                               maxLimit, 1, <<>>, <<>>, FALSE) }
    } : TRUE

splitNode(node, maxLimit) ==
    LET r == SplitNodeOn(<<>>, node, maxLimit)
    IN <<r[1], r[2]>>


(* ------------------------------------------------------------- documents *)
(* A summary is a sequence of block kinds; Render is what react-markdown    *)
(* puts under the hidden container for it, with the margins of the          *)
(* markdownComponents class names.  Block j owns the ids 1000*j ..          *)
Words(base, n) == [k \in 1..(2 * n - 1) |-> base + k]

Para(base, n) ==
    Element("P", base, 0, 0, MarginP, <<TextNode(Words(base, n))>>)

ListItem(base, i, n) ==
    Element("LI", base + 100 * i, 0, IF i = 1 THEN 0 ELSE SpaceY, 0,
            <<TextNode(Words(base + 100 * i, n))>>)

(* The line break that react-markdown leaves as a text node between the     *)
(* block children of a list or a blockquote.                                *)
NewLine(id) == TextNode(<<id>>)

List(base, items, n) ==
    Element("UL", base, 0, 0, MarginP,
            [k \in 1..(2 * items + 1) |->
                IF k % 2 = 1 THEN NewLine(base + 2 * k)
                ELSE ListItem(base, k \div 2, n)])

(* > two paragraphs in a blockquote, of n1 and n2 lines. *)
Quote(base, n1, n2) ==
    Element("BLOCKQUOTE", base, 0, 0, MarginP,
            <<NewLine(base + 2), Para(base + 100, n1), NewLine(base + 4),
              Para(base + 200, n2), NewLine(base + 6)>>)

Block(kind, j) ==
    LET base == 1000 * j
    IN CASE kind = "h1" ->
              Element("H1", base, 0, MarginHTop, MarginHBottom,
                      <<TextNode(Words(base, 1))>>)
         [] kind = "p1" -> Para(base, 1)
         [] kind = "p22" -> Para(base, 22)
         [] kind = "p30" -> Para(base, 30)
         [] kind = "p72" -> Para(base, 72)
         [] kind = "ul3" -> List(base, 3, 10)
         [] kind = "ulTall" -> List(base, 2, 25)
         [] kind = "ul8" -> List(base, 8, 3)
         [] kind = "ul23" -> List(base, 2, 23)
         [] kind = "bq" -> Quote(base, 22, 2)
         [] kind = "pre" -> Element("PRE", base, 800, 0, 0, <<>>)
         [] kind = "div" -> Element("DIV", base, 800, 0, 0, <<>>)
         [] kind = "pimg" ->
              Element("P", base, 0, 0, MarginP,
                      <<Element("IMG", base + 1, 800, 0, 0, <<>>),
                        TextNode(Words(base + 100, 2))>>)
         [] kind = "pmix" ->
              Element("P", base, 0, 0, MarginP,
                      <<TextNode(Words(base, 10) \o <<base + 20>>),
                        Element("STRONG", base + 99, 0, 0, 0,
                                <<TextNode(Words(base + 100, 2))>>),
                        TextNode(<<base + 200>> \o Words(base + 200, 20))>>)

Kinds == {"h1", "p1", "p22", "p30", "p72", "ul3", "ulTall", "ul8", "ul23",
          "bq", "pre", "div", "pimg", "pmix"}

Render(s) == [j \in 1..Len(s) |-> Block(s[j], j)]

AllocSummaries == UNION {[1..n -> Kinds] : n \in 0..MaxBlocks}

Summaries == {<<>>, <<"p1">>, <<"h1", "p30">>, <<"p22", "ul3">>, <<"div">>}

(* ------------------------------------------------------------------ state *)
VARIABLES
    summary,            \* session.summary
    isDarkMode,         \* App state isDarkMode (markdownComponents dependency)
    attached,           \* hiddenRenderRef.current is not null
    surface,            \* children of the hidden render container
    timers,             \* ids of the pending setTimeout callbacks
    cleanup,            \* timer id the effect's cleanup will clear, 0: none
    gen,                \* number of runs of the layout effect so far
    pc,                 \* "idle", or "loop": inside the timer callback
    queue,              \* the callback's queue: [n: node, live: in document]
    currentPageNodes,   \* the callback's accumulator
    currentHeight,      \* the callback's running height
    newPages,           \* the callback's finished pages
    tick,               \* parity of the number of loop iterations
    passGen,            \* the effect run whose timer is executing
    pages,              \* Notebook state pages
    pagesGen,           \* the effect run whose pass set pages, 0: none
    results,            \* ghost: a record of every setPages so far
    skipped,            \* a timer callback returned at its guard
    isExporting,        \* App state isExporting
    lastExport,         \* what the last handleExport rasterized
    mounted,            \* App renders <Notebook/> (SUMMARY tab, session set)
    mountedAt,          \* ghost: the effect run of the current mount
    nCards,             \* FlashcardRunner prop cards.length
    mode,               \* FlashcardRunner state mode
    currentIndex,       \* FlashcardRunner state currentIndex
    isFlipped,          \* FlashcardRunner state isFlipped
    userAnswer,         \* FlashcardRunner state userAnswer, by what it is
    feedback,           \* FlashcardRunner state feedback
    completed,          \* FlashcardRunner state completed
    score,              \* FlashcardRunner state score
    isTransitioning,    \* FlashcardRunner state isTransitioning
    cardTimers,         \* pending setTimeout callbacks of the runner
    shown,              \* ghost: indices of the cards shown since restart
    view,               \* App state view
    activeTab,          \* App state activeTab
    session,            \* App state session: its document, 0 when null
    summaryOf,          \* ghost: the document session.summary was made from
    isProcessing,       \* App state isProcessing
    error,              \* App state error
    isRegenerating,     \* App state isRegenerating
    regenReqs,          \* regenerateSummary calls in flight
    uploads,            \* handleFileUpload calls in flight
    nDocs,              \* ghost: files chosen so far
    nRegens,            \* ghost: regenerate requests so far
    logged              \* calls of console.error so far

vars == <<summary, isDarkMode, attached, surface, timers, cleanup, gen, pc,
          queue, currentPageNodes, currentHeight, newPages, tick, passGen,
          pages, pagesGen, results, skipped, isExporting, lastExport,
          mounted, mountedAt, nCards, mode, currentIndex, isFlipped,
          userAnswer, feedback, completed, score, isTransitioning,
          cardTimers, shown, view, activeTab, session, summaryOf,
          isProcessing, error, isRegenerating, regenReqs, uploads, nDocs,
          nRegens, logged>>

passVars == <<queue, currentPageNodes, currentHeight, newPages, tick, passGen>>
uiVars == <<summary, isDarkMode, attached, timers, cleanup, gen>>
exportVars == <<isExporting, lastExport>>
mountVars == <<mounted, mountedAt>>
cardVars == <<nCards, mode, currentIndex, isFlipped, userAnswer, feedback,
              completed, score, isTransitioning, cardTimers, shown>>
appVars == <<view, activeTab, session, summaryOf, isProcessing, error,
             isRegenerating, regenReqs, uploads, nDocs, nRegens, logged>>
notebookVars == <<summary, isDarkMode, attached, surface, timers, cleanup,
                  gen, pc, passVars, pages, pagesGen, results, skipped,
                  exportVars, mountVars>>

InitNotebook(S) ==
    /\ summary \in S
    /\ isDarkMode = FALSE
    /\ attached = TRUE
    /\ surface = Render(summary)
    /\ timers = {1}
    /\ cleanup = 1
    /\ gen = 1
    /\ pc = "idle"
    /\ queue = <<>>
    /\ currentPageNodes = <<>>
    /\ currentHeight = 0
    /\ newPages = <<>>
    /\ tick = 0
    /\ passGen = 0
    /\ pages = <<>>
    /\ pagesGen = 0
    /\ results = {}
    /\ skipped = FALSE
    /\ isExporting = FALSE
    /\ lastExport = "none"
    /\ mounted = TRUE
    /\ mountedAt = 1

(* FlashcardRunner's useState initial values, for cards.length in N. *)
InitRunner(N) ==
    /\ nCards \in N
    /\ mode = "classic"
    /\ currentIndex = 0
    /\ isFlipped = FALSE
    /\ userAnswer = "blank"
    /\ feedback = "idle"
    /\ completed = FALSE
    /\ score = 0
    /\ isTransitioning = FALSE
    /\ cardTimers = <<>>
    /\ shown = {0}

(* App with a session on the SUMMARY tab of the dashboard, nothing in *)
(* flight.                                                           *)
InitDashboard ==
    /\ view = "DASHBOARD"
    /\ activeTab = "SUMMARY"
    /\ session = 1
    /\ summaryOf = 1
    /\ isProcessing = FALSE
    /\ error = "null"
    /\ isRegenerating = FALSE
    /\ regenReqs = <<>>
    /\ uploads = <<>>
    /\ nDocs = 1
    /\ nRegens = 0
    /\ logged = 0

InitWith(S) == InitNotebook(S) /\ InitRunner({1}) /\ InitDashboard

Init == InitWith(Summaries)
InitAlloc == InitWith(AllocSummaries)


(* ------------------------------------------------------- the layout effect *)
(* splitNode without the removeChild(clone1) at its end. *)
SplitSurfaceKeepsClone(s, node, maxLimit) ==
    AppendChild(s, TempClone(node))

(* What a call splitNode(node, maxLimit) leaves under the hidden container: *)
(* clone1 is appended for measuring and removed before the return, and so   *)
(* is the clone1 of every recursive call.                                   *)
SplitSurface(s, node, maxLimit) == SplitNodeOn(s, node, maxLimit)[3]

(* The children React does not manage: they survive a re-render. *)
Residue == SubSeq(surface, Len(summary) + 1, Len(surface))

(* An effect that returns no cleanup: nothing is cleared. *)
ClearNothing(ts) == ts

(* The cleanup of the previous effect run, passed the pending timers. *)
ClearTimeout(ts) == ts \ {cleanup}

(* A run of the layout effect after a render that changed a dependency:     *)
(* the previous cleanup, the guard on the ref, setTimeout(..., 300).        *)
RunEffect ==
    /\ gen' = gen + 1
    /\ IF attached
       THEN /\ timers' = ClearTimeout(timers) \cup {gen + 1}
            /\ cleanup' = gen + 1
       ELSE /\ timers' = ClearTimeout(timers)
            /\ cleanup' = 0

(* setSession(prev => ({...prev, summary: newSummary})) with a new summary. *)
SetSummary(s) ==
    /\ pc = "idle"
    /\ mounted
    /\ gen < MaxTriggers
    /\ s # summary
    /\ summary' = s
    /\ surface' = Render(s) \o Residue
    /\ RunEffect
    /\ UNCHANGED <<isDarkMode, attached, pc, passVars, pages, pagesGen,
                   results, skipped, exportVars, mountVars, cardVars,
                   appVars>>

(* toggleDarkMode: markdownComponents is rebuilt, the geometry is the same. *)
ToggleDarkMode ==
    /\ pc = "idle"
    /\ mounted
    /\ gen < MaxTriggers
    /\ isDarkMode' = ~isDarkMode
    /\ surface' = Render(summary) \o Residue
    /\ RunEffect
    /\ UNCHANGED <<summary, attached, pc, passVars, pages, pagesGen,
                   results, skipped, exportVars, mountVars, cardVars,
                   appVars>>

(* React sets or clears hiddenRenderRef.current. *)
SetRef ==
    /\ pc = "idle"
    /\ mounted
    /\ attached' = ~attached
    /\ UNCHANGED <<summary, isDarkMode, surface, timers, cleanup, gen, pc,
                   passVars, pages, pagesGen, results, skipped, exportVars,
                   mountVars, cardVars, appVars>>

(* ------------------------------------------------------ the timer callback *)
(* A callback without the guard on the ref. *)
NoTimerGuard == TRUE

(* The guard of the callback: TRUE when the pass runs. *)
TimerGuard == attached

(* Entry of the callback of timer t: guard, sourceNodes, queue. *)
TimerFire(t) ==
    /\ pc = "idle"
    /\ t \in timers
    /\ timers' = timers \ {t}
    /\ IF TimerGuard
       THEN /\ pc' = "loop"
            /\ queue' = [i \in 1..Len(surface) |->
                            [n |-> surface[i], live |-> TRUE]]
            /\ currentPageNodes' = <<>>
            /\ currentHeight' = 0
            /\ newPages' = <<>>
            /\ passGen' = t
            /\ UNCHANGED <<tick, skipped>>
       ELSE /\ skipped' = TRUE
            /\ UNCHANGED <<pc, passVars>>
    /\ UNCHANGED <<summary, isDarkMode, attached, surface, cleanup, gen,
                   pages, pagesGen, results, exportVars, mountVars, cardVars,
                   appVars>>

(* getComputedStyle and offsetHeight of a queue entry: a node that is not   *)
(* in the document has no layout box and no computed style.                 *)
MarginTop(e) == IF e.live THEN e.n.mt ELSE 0
MarginBottom(e) == IF e.live THEN e.n.mb ELSE 0
NodeHeight(e) == IF e.live THEN OffsetHeight(e.n) ELSE 0
TotalNodeHeight(e) == NodeHeight(e) + MarginTop(e) + MarginBottom(e)

RemainingSpace(e) == MAX_PAGE_HEIGHT - currentHeight - MarginTop(e)

(* The fit test without the running height. *)
DoesFitIgnoringPage(e) == TotalNodeHeight(e) <= MAX_PAGE_HEIGHT

(* The fit test with the split threshold taken off the page height. *)
DoesFitWithBuffer(e) ==
    currentHeight + TotalNodeHeight(e) <= MAX_PAGE_HEIGHT - AllocThreshold

DoesFit(e) == currentHeight + TotalNodeHeight(e) <= MAX_PAGE_HEIGHT

(* canSplit without the list of kinds. *)
CanSplitAnyKind(e) == RemainingSpace(e) > AllocThreshold

CanSplit(e) ==
    /\ e.n.tag \in {"P", "UL", "OL", "BLOCKQUOTE", "DIV"}
    /\ RemainingSpace(e) > AllocThreshold

(* The flush without its guard. *)
FlushAlways(ps, nodes) == Append(ps, nodes)

(* newPages after `if (nodes.length > 0) newPages.push(...)`. *)
Flush(ps, nodes) == IF nodes # <<>> THEN Append(ps, nodes) ELSE ps

Fragment(n) == [n |-> n, live |-> FALSE]

(* queue.push in the place of queue.unshift. *)
PushBack(q, e) == Append(q, e)

(* queue.unshift(e). *)
Unshift(q, e) == <<e>> \o q

(* One iteration of the while loop: the node fits. *)
IterFit ==
    /\ pc = "loop"
    /\ queue # <<>>
    /\ DoesFit(Head(queue))
    /\ queue' = Tail(queue)
    /\ currentPageNodes' = Append(currentPageNodes, Head(queue).n)
    /\ currentHeight' = currentHeight + TotalNodeHeight(Head(queue))
    /\ tick' = 1 - tick
    /\ UNCHANGED <<uiVars, surface, pc, newPages, passGen, pages, pagesGen,
                   results, skipped, exportVars, mountVars, cardVars,
                   appVars>>

(* One iteration of the while loop: the node does not fit and is split. *)
IterSplit ==
    /\ pc = "loop"
    /\ queue # <<>>
    /\ ~DoesFit(Head(queue))
    /\ CanSplit(Head(queue))
    /\ LET e == Head(queue)
           parts == splitNode(e.n, RemainingSpace(e))
           part1 == parts[1]
           part2 == parts[2]
           withPart1 == IF part1 # Null
                        THEN Append(currentPageNodes, part1)
                        ELSE currentPageNodes
       IN /\ newPages' = Flush(newPages, withPart1)
          /\ currentPageNodes' = <<>>
          /\ currentHeight' = 0
          /\ queue' = IF part2 # Null
                      THEN Unshift(Tail(queue), Fragment(part2))
                      ELSE IF part1 = Null
                           THEN Unshift(Tail(queue), e)
                           ELSE Tail(queue)
          /\ surface' = SplitSurface(surface, e.n, RemainingSpace(e))
    /\ tick' = 1 - tick
    /\ UNCHANGED <<uiVars, pc, passGen, pages, pagesGen, results, skipped,
                   exportVars, mountVars, cardVars, appVars>>

(* One iteration of the while loop: the node does not fit and is not split. *)
IterForce ==
    /\ pc = "loop"
    /\ queue # <<>>
    /\ ~DoesFit(Head(queue))
    /\ ~CanSplit(Head(queue))
    /\ newPages' = Flush(newPages, currentPageNodes)
    /\ currentPageNodes' = <<Head(queue).n>>
    /\ currentHeight' = TotalNodeHeight(Head(queue))
    /\ queue' = Tail(queue)
    /\ tick' = 1 - tick
    /\ UNCHANGED <<uiVars, surface, pc, passGen, pages, pagesGen,
                   results, skipped, exportVars, mountVars, cardVars,
                   appVars>>

(* After the loop: the final flush and setPages(newPages). *)
Commit ==
    /\ pc = "loop"
    /\ queue = <<>>
    /\ pages' = Flush(newPages, currentPageNodes)
    /\ pagesGen' = passGen
    /\ results' = results \cup
           {[summary |-> summary, dark |-> isDarkMode, pages |-> pages',
             pass |-> passGen, latest |-> gen]}
    /\ pc' = "idle"
    /\ UNCHANGED <<uiVars, surface, passVars, skipped, exportVars, mountVars,
                   cardVars, appVars>>

(* -------------------------------------------------------------- the export *)
(* handleExport up to `await document.fonts.ready`. *)
ExportStart ==
    /\ pc = "idle"
    /\ ~isExporting
    /\ isExporting' = TRUE
    /\ UNCHANGED <<uiVars, surface, pc, passVars, pages, pagesGen, results,
                   skipped, lastExport, mountVars, cardVars, appVars>>

(* handleExport after the await: the '.print-page' elements (pdf) or the    *)
(* whole notebook element (png) are rasterized as they are displayed.  With *)
(* no page yet, pdf throws "No pages found to export" and png shows the     *)
(* placeholder sheet.                                                       *)
ExportRasterize(type) ==
    /\ pc = "idle"
    /\ isExporting
    /\ lastExport' = IF pages = <<>>
                     THEN (IF type = "pdf" THEN "error" ELSE "placeholder")
                     ELSE IF pagesGen = gen THEN "fresh" ELSE "stale"
    /\ isExporting' = FALSE
    /\ UNCHANGED <<uiVars, surface, pc, passVars, pages, pagesGen, results,
                   skipped, mountVars, cardVars, appVars>>

(* ------------------------------------------- mounting of the Notebook *)
(* An unmount that leaves the pending timer alone. *)
KeepOnUnmount(ts) == ts

(* The cleanup of the layout effect, run by React at unmount. *)
CleanupOnUnmount(ts) == ClearTimeout(ts)

(* What the unmount of <Notebook/> does: the cleanup runs, the ref is *)
(* cleared, the component state is discarded.                         *)
UnmountNotebook ==
    /\ mounted' = FALSE
    /\ timers' = CleanupOnUnmount(timers)
    /\ cleanup' = 0
    /\ attached' = FALSE
    /\ surface' = <<>>
    /\ pages' = <<>>
    /\ pagesGen' = 0
    /\ UNCHANGED <<gen, mountedAt>>

(* What the mount of <Notebook/> with summary s does: useState([]), the *)
(* hidden container is rendered, the layout effect runs for the first   *)
(* time.                                                                *)
MountNotebook(s) ==
    /\ mounted' = TRUE
    /\ attached' = TRUE
    /\ surface' = Render(s)
    /\ pages' = <<>>
    /\ pagesGen' = 0
    /\ gen' = gen + 1
    /\ timers' = timers \cup {gen + 1}
    /\ cleanup' = gen + 1
    /\ mountedAt' = gen + 1

(* setActiveTab(FLASHCARDS) or onSignOut: App stops rendering <Notebook/>. *)
Unmount ==
    /\ pc = "idle"
    /\ mounted
    /\ UnmountNotebook
    /\ UNCHANGED <<summary, isDarkMode, pc, passVars, results, skipped,
                   exportVars, cardVars, appVars>>

(* App renders <Notebook/> again. *)
Mount ==
    /\ pc = "idle"
    /\ ~mounted
    /\ gen < MaxTriggers
    /\ MountNotebook(summary)
    /\ UNCHANGED <<summary, isDarkMode, pc, passVars, results, skipped,
                   exportVars, cardVars, appVars>>

(* session.summary changes while the Notebook is not rendered. *)
SetSummaryAway(s) ==
    /\ pc = "idle"
    /\ ~mounted
    /\ s # summary
    /\ summary' = s
    /\ UNCHANGED <<isDarkMode, attached, surface, timers, cleanup, gen, pc,
                   passVars, pages, pagesGen, results, skipped, exportVars,
                   mountVars, cardVars, appVars>>

(* ------------------------------------------------------ FlashcardRunner *)
(* The runner renders: the completed screen, or a card that exists. *)
Renders == completed \/ currentIndex < nCards

(* The 1000ms callback: handleNext of the render that called checkAnswer, *)
(* with that render's currentIndex and isFlipped.                         *)
NextTimer(idx, flipped) == [kind |-> "next", idx |-> idx, flipped |-> flipped]

(* The 600ms callback of handleNext. *)
FlipTimer == [kind |-> "flip", idx |-> 0, flipped |-> FALSE]

(* s without its k-th element. *)
Without(s, k) == [j \in 1..(Len(s) - 1) |-> IF j < k THEN s[j] ELSE s[j + 1]]

(* useEffect on [currentIndex, currentCard, isTransitioning], run after a *)
(* change of one of them to (idx, trans): the card is reset unless a      *)
(* transition is under way.                                               *)
CardEffect(idx, trans, flipped, fb, ans) ==
    /\ shown' = IF idx # currentIndex THEN shown \cup {idx} ELSE shown
    /\ IF (idx # currentIndex \/ trans # isTransitioning) /\ ~trans
       THEN isFlipped' = FALSE /\ userAnswer' = "blank" /\ feedback' = "idle"
       ELSE isFlipped' = flipped /\ userAnswer' = ans /\ feedback' = fb

(* handleNext, called from a render whose currentIndex was idx and whose *)
(* isFlipped was flipped (its isTransitioning was FALSE), leaving rest   *)
(* as the other pending callbacks.                                       *)
handleNext(idx, flipped, rest) ==
    IF idx < nCards - 1
    THEN IF flipped
         THEN /\ isTransitioning' = TRUE
              /\ cardTimers' = Append(rest, FlipTimer)
              /\ CardEffect(currentIndex, TRUE, FALSE, feedback, userAnswer)
              /\ UNCHANGED <<currentIndex, completed>>
         ELSE /\ currentIndex' = currentIndex + 1
              /\ cardTimers' = rest
              /\ CardEffect(currentIndex + 1, isTransitioning, isFlipped,
                            feedback, userAnswer)
              /\ UNCHANGED <<isTransitioning, completed>>
    ELSE /\ completed' = TRUE
         /\ cardTimers' = rest
         /\ UNCHANGED <<currentIndex, isTransitioning, isFlipped, userAnswer,
                        feedback, shown>>

(* checkAnswer with an input that is not blank: a is "right" when the    *)
(* normalized input matches the card's answer, "wrong" otherwise.        *)
checkAnswer(a) ==
    /\ ~isTransitioning
    /\ userAnswer' = a
    /\ IF a = "right"
       THEN /\ Len(cardTimers) < MaxPending
            /\ feedback' = "correct"
            /\ score' = score + 1
            /\ cardTimers' =
                  Append(cardTimers, NextTimer(currentIndex, isFlipped))
            /\ UNCHANGED isFlipped
       ELSE /\ feedback' = "wrong"
            /\ isFlipped' = TRUE
            /\ UNCHANGED <<score, cardTimers>>
    /\ UNCHANGED <<nCards, mode, currentIndex, completed, isTransitioning,
                   shown, notebookVars, appVars>>

(* Enter in the textarea (classic mode), after typing an answer; the     *)
(* textarea keeps the focus and is disabled only by feedback 'correct'   *)
(* or a transition.                                                      *)
SubmitEnter(a) ==
    /\ Renders /\ ~completed
    /\ mode = "classic"
    /\ feedback # "correct" /\ ~isTransitioning
    /\ checkAnswer(a)

(* Click on the submit button of the front face (classic mode). *)
SubmitClick(a) ==
    /\ Renders /\ ~completed
    /\ mode = "classic"
    /\ ~isFlipped
    /\ feedback = "idle" /\ ~isTransitioning
    /\ checkAnswer(a)

(* Click on an option of the front face (choice mode). *)
OptionClick(a) ==
    /\ Renders /\ ~completed
    /\ mode = "choice"
    /\ ~isFlipped
    /\ feedback = "idle" /\ ~isTransitioning
    /\ checkAnswer(a)

(* Try Again on the back face. *)
TryAgain ==
    /\ Renders /\ ~completed
    /\ isFlipped
    /\ ~isTransitioning
    /\ isFlipped' = FALSE
    /\ feedback' = "idle"
    /\ UNCHANGED <<nCards, mode, currentIndex, userAnswer, completed, score,
                   isTransitioning, cardTimers, shown, notebookVars, appVars>>

(* Next on the back face. *)
NextClick ==
    /\ Renders /\ ~completed
    /\ isFlipped
    /\ ~isTransitioning
    /\ Len(cardTimers) < MaxPending
    /\ handleNext(currentIndex, isFlipped, cardTimers)
    /\ UNCHANGED <<nCards, mode, score, notebookVars, appVars>>

(* The Classic / Quiz switch. *)
SetMode(m) ==
    /\ Renders /\ ~completed
    /\ ~isTransitioning
    /\ m # mode
    /\ mode' = m
    /\ UNCHANGED <<nCards, currentIndex, isFlipped, userAnswer, feedback,
                   completed, score, isTransitioning, cardTimers, shown,
                   notebookVars, appVars>>

(* Study Again on the completed screen. *)
restart ==
    /\ completed
    /\ currentIndex' = 0
    /\ score' = 0
    /\ completed' = FALSE
    /\ isFlipped' = FALSE
    /\ feedback' = "idle"
    /\ userAnswer' = "blank"
    /\ isTransitioning' = FALSE
    /\ shown' = {0}
    /\ UNCHANGED <<nCards, mode, cardTimers, notebookVars, appVars>>

(* The k-th pending callback runs. *)
CardTimerFire(k) ==
    /\ Renders
    /\ LET t == cardTimers[k]
           rest == Without(cardTimers, k)
       IN  IF t.kind = "next"
           THEN handleNext(t.idx, t.flipped, rest)
           ELSE /\ currentIndex' = currentIndex + 1
                /\ isTransitioning' = FALSE
                /\ cardTimers' = rest
                /\ CardEffect(currentIndex + 1, FALSE, isFlipped, feedback,
                              userAnswer)
                /\ UNCHANGED completed
    /\ UNCHANGED <<nCards, mode, score, notebookVars, appVars>>

(* ------------------------------------------------------------------ App *)
(* The summaries the AI service returns. *)
AppSummaries == {<<"p1">>, <<"h1", "p30">>}

(* The Notebook state no App handler touches. *)
passiveVars == <<isDarkMode, pc, passVars, results, skipped, exportVars>>

(* The Notebook is not rendered before and after the step, or is      *)
(* rendered with the same props.                                     *)
KeepNotebook ==
    UNCHANGED <<attached, surface, timers, cleanup, gen, pages, pagesGen,
                mountVars>>

(* A call in flight: the document it was started for and its stage. *)
Request(doc, st) == [doc |-> doc, st |-> st]

(* The calls in flight with the k-th at stage st. *)
Staged(reqs, k, st) == [reqs EXCEPT ![k].st = st]

(* The finally block of the onloadend handler. *)
FinallyKeepsProcessing(p) == p
FinallyProcessing(p) == FALSE

(* The guard of the Header's Regenerate button. *)
RegenerateAlways == TRUE
RegenerateEnabled == ~isRegenerating

(* handleFileUpload up to reader.readAsDataURL(file): the upload view's *)
(* input is disabled while isProcessing.                                *)
UploadStart ==
    /\ view = "UPLOAD"
    /\ ~isProcessing
    /\ nDocs < MaxDocs
    /\ nDocs' = nDocs + 1
    /\ isProcessing' = TRUE
    /\ error' = "null"
    /\ uploads' = Append(uploads, Request(nDocs + 1, "reading"))
    /\ UNCHANGED <<view, activeTab, session, summaryOf, isRegenerating,
                   regenReqs, nRegens, notebookVars, cardVars, logged>>

(* The FileReader finishes: the file was read, or reader.error is set. *)
FileRead(k, ok) ==
    /\ uploads[k].st = "reading"
    /\ uploads' = Staged(uploads, k, IF ok THEN "generating" ELSE "unreadable")
    /\ UNCHANGED <<view, activeTab, session, summaryOf, isProcessing, error,
                   isRegenerating, regenReqs, nDocs, nRegens, notebookVars,
                   cardVars, logged>>

(* reader.onerror (reader.onloadend returns at once). *)
OnReadError(k) ==
    /\ uploads[k].st = "unreadable"
    /\ uploads' = Without(uploads, k)
    /\ error' = "Failed to read the file"
    /\ isProcessing' = FALSE
    /\ UNCHANGED <<view, activeTab, session, summaryOf, isRegenerating,
                   regenReqs, nDocs, nRegens, notebookVars, cardVars, logged>>

(* The promise of generateSummaryAndFlashcards settles. *)
Generated(k, ok) ==
    /\ uploads[k].st = "generating"
    /\ uploads' = Staged(uploads, k, IF ok THEN "resolved" ELSE "rejected")
    /\ UNCHANGED <<view, activeTab, session, summaryOf, isProcessing, error,
                   isRegenerating, regenReqs, nDocs, nRegens, notebookVars,
                   cardVars, logged>>

(* The try block after the await: setSession(newSession), setView, and *)
(* the finally block; App renders the dashboard.                       *)
OnGenerated(k, s) ==
    /\ uploads[k].st = "resolved"
    /\ uploads' = Without(uploads, k)
    /\ session' = uploads[k].doc
    /\ summary' = s
    /\ summaryOf' = uploads[k].doc
    /\ view' = "DASHBOARD"
    /\ isProcessing' = FinallyProcessing(isProcessing)
    /\ IF activeTab = "SUMMARY" /\ ~mounted
       THEN MountNotebook(s)
       ELSE KeepNotebook
    /\ UNCHANGED <<activeTab, error, isRegenerating, regenReqs, nDocs,
                   nRegens, passiveVars, cardVars, logged>>

(* The catch block after the await, and the finally block. *)
OnGenerateFailed(k) ==
    /\ uploads[k].st = "rejected"
    /\ uploads' = Without(uploads, k)
    /\ error' = "An error occurred"
    /\ isProcessing' = FinallyProcessing(isProcessing)
    /\ UNCHANGED <<view, activeTab, session, summaryOf, isRegenerating,
                   regenReqs, nDocs, nRegens, notebookVars, cardVars, logged>>

(* The Sidebar's onSignOut. *)
SignOut ==
    /\ view = "DASHBOARD"
    /\ session' = 0
    /\ summary' = <<>>
    /\ summaryOf' = 0
    /\ view' = "UPLOAD"
    /\ activeTab' = "SUMMARY"
    /\ error' = "null"
    /\ IF mounted THEN UnmountNotebook ELSE KeepNotebook
    /\ UNCHANGED <<isProcessing, isRegenerating, regenReqs, uploads, nDocs,
                   nRegens, passiveVars, cardVars, logged>>

(* The Sidebar's setActiveTab. *)
SetActiveTab(t) ==
    /\ view = "DASHBOARD"
    /\ t # activeTab
    /\ t = "SUMMARY" => gen < MaxTriggers
    /\ activeTab' = t
    /\ IF t = "SUMMARY" /\ session # 0
       THEN MountNotebook(summary)
       ELSE IF mounted THEN UnmountNotebook ELSE KeepNotebook
    /\ UNCHANGED <<view, session, summaryOf, isProcessing, error,
                   isRegenerating, regenReqs, uploads, nDocs, nRegens,
                   summary, passiveVars, cardVars, logged>>

(* handleRegenerateSummary up to the await, from the Header's button, *)
(* which the SUMMARY tab shows.                                       *)
RegenerateStart ==
    /\ view = "DASHBOARD"
    /\ activeTab = "SUMMARY"
    /\ RegenerateEnabled
    /\ session # 0
    /\ nRegens < MaxRegens
    /\ nRegens' = nRegens + 1
    /\ isRegenerating' = TRUE
    /\ regenReqs' = Append(regenReqs, Request(session, "pending"))
    /\ UNCHANGED <<view, activeTab, session, summaryOf, isProcessing, error,
                   uploads, nDocs, notebookVars, cardVars, logged>>

(* The promise of regenerateSummary settles. *)
Regenerated(k, ok) ==
    /\ regenReqs[k].st = "pending"
    /\ regenReqs' = Staged(regenReqs, k, IF ok THEN "resolved" ELSE "rejected")
    /\ UNCHANGED <<view, activeTab, session, summaryOf, isProcessing, error,
                   isRegenerating, uploads, nDocs, nRegens, notebookVars,
                   cardVars, logged>>

(* setSession(prev => prev ? { ...prev, summary: newSummary } : null) and *)
(* the finally block; a mounted Notebook whose summary changed re-renders *)
(* and runs its layout effect.                                            *)
OnRegenerated(k, s) ==
    /\ regenReqs[k].st = "resolved"
    /\ regenReqs' = Without(regenReqs, k)
    /\ isRegenerating' = FALSE
    /\ IF session # 0
       THEN /\ summary' = s
            /\ summaryOf' = regenReqs[k].doc
       ELSE UNCHANGED <<summary, summaryOf>>
    /\ IF session # 0 /\ mounted /\ s # summary
       THEN /\ surface' = Render(s) \o Residue
            /\ RunEffect
            /\ UNCHANGED <<attached, pages, pagesGen, mountVars>>
       ELSE KeepNotebook
    /\ UNCHANGED <<view, activeTab, session, isProcessing, error, uploads,
                   nDocs, nRegens, passiveVars, cardVars, logged>>

(* The catch block (console.error) and the finally block. *)
OnRegenerateFailed(k) ==
    /\ regenReqs[k].st = "rejected"
    /\ regenReqs' = Without(regenReqs, k)
    /\ logged' = logged + 1
    /\ isRegenerating' = FALSE
    /\ UNCHANGED <<view, activeTab, session, summaryOf, isProcessing, error,
                   uploads, nDocs, nRegens, notebookVars, cardVars>>

Iterate == IterFit \/ IterSplit \/ IterForce

Next ==
    \/ \E s \in Summaries : SetSummary(s)
    \/ ToggleDarkMode
    \/ SetRef
    \/ \E t \in timers : TimerFire(t)
    \/ IterFit
    \/ IterSplit
    \/ IterForce
    \/ Commit
    \/ ExportStart
    \/ \E type \in {"png", "pdf"} : ExportRasterize(type)

NextAlloc ==
    \/ \E t \in timers : TimerFire(t)
    \/ IterFit
    \/ IterSplit
    \/ IterForce
    \/ Commit

NextMount ==
    \/ \E s \in Summaries : SetSummary(s)
    \/ \E s \in Summaries : SetSummaryAway(s)
    \/ Unmount
    \/ Mount
    \/ \E t \in timers : TimerFire(t)
    \/ IterFit
    \/ IterSplit
    \/ IterForce
    \/ Commit

Spec == Init /\ [][Next]_vars
SpecMount == Init /\ [][NextMount]_vars

NextCards ==
    \/ \E a \in {"right", "wrong"} : SubmitEnter(a)
    \/ \E a \in {"right", "wrong"} : SubmitClick(a)
    \/ \E a \in {"right", "wrong"} : OptionClick(a)
    \/ TryAgain
    \/ NextClick
    \/ \E m \in {"classic", "choice"} : SetMode(m)
    \/ restart
    \/ \E k \in 1..Len(cardTimers) : CardTimerFire(k)

InitCards ==
    InitNotebook({<<>>}) /\ InitRunner(1..MaxCards) /\ InitDashboard
SpecCards == InitCards /\ [][NextCards]_vars

(* The steps of a call in flight. They are callbacks of the event loop *)
(* and settlements of the FileReader and of the AI service's promises. *)
UploadProgress ==
    \/ \E k \in 1..Len(uploads), ok \in BOOLEAN : FileRead(k, ok)
    \/ \E k \in 1..Len(uploads) : OnReadError(k)
    \/ \E k \in 1..Len(uploads), ok \in BOOLEAN : Generated(k, ok)
    \/ \E k \in 1..Len(uploads), s \in AppSummaries : OnGenerated(k, s)
    \/ \E k \in 1..Len(uploads) : OnGenerateFailed(k)

RegenerateProgress ==
    \/ \E k \in 1..Len(regenReqs), ok \in BOOLEAN : Regenerated(k, ok)
    \/ \E k \in 1..Len(regenReqs), s \in AppSummaries : OnRegenerated(k, s)
    \/ \E k \in 1..Len(regenReqs) : OnRegenerateFailed(k)

NextApp ==
    \/ UploadStart
    \/ UploadProgress
    \/ SignOut
    \/ \E t \in {"SUMMARY", "FLASHCARDS"} : SetActiveTab(t)
    \/ RegenerateStart
    \/ RegenerateProgress

(* App as constructed: the upload view, no session, no Notebook. *)
InitApp ==
    /\ summary = <<>>
    /\ isDarkMode = FALSE
    /\ attached = FALSE
    /\ surface = <<>>
    /\ timers = {}
    /\ cleanup = 0
    /\ gen = 0
    /\ pc = "idle"
    /\ queue = <<>>
    /\ currentPageNodes = <<>>
    /\ currentHeight = 0
    /\ newPages = <<>>
    /\ tick = 0
    /\ passGen = 0
    /\ pages = <<>>
    /\ pagesGen = 0
    /\ results = {}
    /\ skipped = FALSE
    /\ isExporting = FALSE
    /\ lastExport = "none"
    /\ mounted = FALSE
    /\ mountedAt = 0
    /\ InitRunner({1})
    /\ view = "UPLOAD"
    /\ activeTab = "SUMMARY"
    /\ session = 0
    /\ summaryOf = 0
    /\ isProcessing = FALSE
    /\ error = "null"
    /\ isRegenerating = FALSE
    /\ regenReqs = <<>>
    /\ uploads = <<>>
    /\ nDocs = 0
    /\ nRegens = 0
    /\ logged = 0

SpecApp == InitApp /\ [][NextApp]_vars
FairSpecApp ==
    SpecApp /\ WF_vars(UploadProgress) /\ WF_vars(RegenerateProgress)
SpecAlloc == InitAlloc /\ [][NextAlloc]_vars

(* The callback runs to completion on the event loop: while the queue is   *)
(* not empty another iteration is taken, and after the loop setPages is.   *)
(* Every iteration flips tick and every setPages leaves the loop, so the   *)
(* two actions below are the steps Iterate and Commit of NextAlloc.        *)
LoopStep == pc = "loop" /\ queue # <<>> /\ tick' = 1 - tick
ExitStep == pc = "loop" /\ queue = <<>> /\ pc' = "idle"

FairSpecAlloc == SpecAlloc /\ WF_tick(LoopStep) /\ WF_pc(ExitStep)

(* A pending timer fires after its delay: the step TimerFire of Next. *)
FireStep == pc = "idle" /\ \E t \in timers : timers' = timers \ {t}

FairSpec ==
    Spec /\ WF_timers(FireStep) /\ WF_tick(LoopStep) /\ WF_pc(ExitStep)

(* ================================================================ claims *)
(* The content of a node: its text units and the ids of its childless      *)
(* elements, in document order.                                            *)
RECURSIVE Leaves(_)
RECURSIVE LeavesOfSeq(_)
Leaves(n) ==
    IF n = Null THEN <<>>
    ELSE IF IsText(n) THEN n.units
    ELSE IF n.kids = <<>> THEN <<n.id>>
    ELSE LeavesOfSeq(n.kids)

LeavesOfSeq(ns) ==
    IF ns = <<>> THEN <<>> ELSE Leaves(ns[1]) \o LeavesOfSeq(Tail(ns))

RECURSIVE LeavesOfPages(_)
LeavesOfPages(ps) ==
    IF ps = <<>> THEN <<>> ELSE LeavesOfSeq(ps[1]) \o LeavesOfPages(Tail(ps))

QueueNodes == [i \in 1..Len(queue) |-> queue[i].n]

Committed == pagesGen # 0 /\ pc = "idle"

(* The budgets splitNode is tried with, besides the allocator's own. *)
SplitBudgets == {30, 100, 340, 360, 700, MAX_PAGE_HEIGHT}

SplitReconstructs(n, budget) ==
    LET parts == splitNode(n, budget)
    IN Leaves(parts[1]) \o Leaves(parts[2]) =
           (IF n.kids = <<>> THEN <<>> ELSE Leaves(n))

(* C1: content conservation and order.  During a pass the finished pages,  *)
(* the accumulator and the queue together hold the content of the source   *)
(* blocks, in order; hence so does the committed page list.  And for every *)
(* source block N and budget, the head and tail of splitNode(N, budget),   *)
(* head first, hold the content of N (checked on the block of every        *)
(* summary of one block before its first pass).                            *)
C1_ContentConserved ==
    /\ pc = "loop" =>
          LeavesOfPages(newPages) \o LeavesOfSeq(currentPageNodes)
              \o LeavesOfSeq(QueueNodes) = LeavesOfSeq(Render(summary))
    /\ Committed => LeavesOfPages(pages) = LeavesOfSeq(Render(summary))
    /\ (pc = "idle" /\ pagesGen = 0 /\ Len(summary) = 1) =>
          \A i \in 1..Len(surface) : \A b \in SplitBudgets :
              SplitReconstructs(surface[i], b)

(* A committed page list in which a block was cut in a text node: the last *)
(* node of a page and the first of the next are parts of the same block.   *)
C1_Witness ==
    /\ Committed
    /\ \E i \in 1..(Len(pages) - 1) :
          /\ pages[i][Len(pages[i])].id = pages[i + 1][1].id
          /\ Leaves(pages[i][Len(pages[i])]) # <<>>
          /\ Leaves(pages[i + 1][1]) # <<>>


(* The height a node takes on a displayed page, margins included. *)
RenderedHeight(n) == n.mt + OffsetHeight(n) + n.mb

RECURSIVE PageHeight(_)
PageHeight(page) ==
    IF page = <<>> THEN 0
    ELSE RenderedHeight(page[1]) + PageHeight(Tail(page))

AllocSplittable(n) == n.tag \in {"P", "UL", "OL", "BLOCKQUOTE", "DIV"}

(* A page that holds one node, not of a splittable kind, taller than a page. *)
OversizedAtomicPage(page) ==
    /\ Len(page) = 1
    /\ ~AllocSplittable(page[1])
    /\ RenderedHeight(page[1]) > MAX_PAGE_HEIGHT

(* C2: height bound.  Every page of a committed page list, except a page   *)
(* holding a single oversized atomic node, is at most MAX_PAGE_HEIGHT tall. *)
C2_HeightBound ==
    Committed =>
        \A i \in 1..Len(pages) :
            OversizedAtomicPage(pages[i])
                \/ PageHeight(pages[i]) <= MAX_PAGE_HEIGHT

SameInput(r1, r2) == r1.summary = r2.summary /\ r1.dark = r2.dark

(* C5: determinism and idempotence.  Two passes over the same summary in   *)
(* the same layout context commit the same page list, and a finished pass  *)
(* leaves under the hidden container the rendered source blocks only.      *)
C5_Deterministic ==
    /\ \A r1, r2 \in results : SameInput(r1, r2) => r1.pages = r2.pages
    /\ pc = "idle" => surface = Render(summary)

(* Two passes of different effect runs over the same input, with a split. *)
C5_Witness ==
    \E r1, r2 \in results :
        /\ SameInput(r1, r2)
        /\ r1.pass # r2.pass
        /\ Len(r1.pages) >= 2

(* C6: no stale commit.  The pass that runs, and every pass that has set   *)
(* the page list, belongs to the latest run of the effect at that time,    *)
(* and the list it set holds the content of that run's summary.            *)
C6_NoStaleCommit ==
    /\ pc = "loop" => passGen = gen
    /\ \A r \in results :
          /\ r.pass = r.latest
          /\ LeavesOfPages(r.pages) = LeavesOfSeq(Render(r.summary))

(* The page list is that of the latest effect run, and the run before it   *)
(* was superseded before its timer set any page list.                      *)
C6_Witness ==
    /\ Committed
    /\ gen >= 2
    /\ pagesGen = gen
    /\ pages # <<>>
    /\ \A r \in results : r.pass # gen - 1

(* C7: whatever handleExport rasterizes is the page list of the latest     *)
(* effect run, never one that a newer trigger has made stale.              *)
C7_ExportFresh == lastExport # "stale"

(* C8: measurement unavailable.  With the ref null no page list is set and *)
(* the effect starts no timer; with the ref set, a timer that fires starts *)
(* the pass.                                                               *)
C8_MeasurementUnavailable ==
    [][/\ ~attached => pages' = pages
       /\ (~attached /\ gen' # gen) => timers' \subseteq timers
       /\ (attached /\ pc = "idle" /\ gen' = gen /\ timers' # timers)
             => pc' = "loop"]_vars

(* A callback returned at its guard and a later pass set the page list. *)
C8_Witness ==
    /\ skipped
    /\ Committed
    /\ pagesGen = gen
    /\ pages # <<>>

FitsOnePage(s) == PageHeight(Render(s)) <= MAX_PAGE_HEIGHT

(* C9 as stated: blocks whose total heights sum to at most MAX_PAGE_HEIGHT *)
(* give exactly one page holding all of them, whole and in order.          *)
C9_SinglePageAnyInput ==
    (Committed /\ FitsOnePage(summary)) => pages = <<Render(summary)>>

(* C9 amended: a non-empty block sequence whose total heights sum to at    *)
(* most MAX_PAGE_HEIGHT gives exactly one page holding all its blocks,     *)
(* whole and in order.                                                     *)
C9_SinglePage ==
    (Committed /\ summary # <<>> /\ FitsOnePage(summary))
        => pages = <<Render(summary)>>

(* A heading and a paragraph committed on one page. *)
C9_Witness ==
    /\ Committed
    /\ Len(summary) >= 2
    /\ FitsOnePage(summary)
    /\ Len(pages) = 1

(* C10: a tail fragment in the queue is measured at its rendered height,   *)
(* and the paragraph of 72 lines (three pages of text) is paginated into   *)
(* 3 or 4 pages.                                                           *)
C10_TailSplitAgain ==
    /\ pc = "loop" =>
          \A i \in 1..Len(queue) :
              NodeHeight(queue[i]) = OffsetHeight(queue[i].n)
    /\ (Committed /\ summary = <<"p72">>) => Len(pages) \in {3, 4}


(* ---------------------------------------------------------------- lists *)
IsList(n) == n.tag \in {"UL", "OL"}

(* The list items among the children of a node. *)
ItemsOf(n) == {n.kids[k] : k \in {k \in 1..Len(n.kids) : n.kids[k].tag = "LI"}}

SourceItems == UNION {ItemsOf(surface[i]) : i \in 1..Len(summary)}

(* The places <<page, node, child>> of a committed page list that hold li. *)
PlacesOf(li) ==
    {p \in UNION {UNION {{<<i, a, k>> : k \in 1..Len(pages[i][a].kids)}
                         : a \in 1..Len(pages[i])} : i \in 1..Len(pages)} :
        pages[p[1]][p[2]].kids[p[3]] = li}

(* C11: list items are atomic within a list.  Every list item of the       *)
(* summary that is at most a page tall is, whole, at exactly one place of  *)
(* the committed page list; and splitNode applied to a list yields a head  *)
(* and a tail whose items are items of that list, none cut.                *)
C11_ListItemsAtomic ==
    /\ Committed =>
          \A li \in SourceItems :
              OffsetHeight(li) <= MAX_PAGE_HEIGHT
                  => Cardinality(PlacesOf(li)) = 1
    /\ (pc = "idle" /\ pagesGen = 0) =>
          \A i \in 1..Len(surface) : \A b \in SplitBudgets :
              IsList(surface[i]) =>
                  LET parts == splitNode(surface[i], b)
                  IN ItemsOf(parts[1]) \cup ItemsOf(parts[2])
                         \subseteq ItemsOf(surface[i])


(* The head of splitNode(n, budget) is null or at most budget tall. *)
HeadFits(n, budget) ==
    LET head == splitNode(n, budget)[1]
    IN head # Null => OffsetHeight(head) <= budget

(* The loop is about to split the node at the front of the queue. *)
AboutToSplit ==
    /\ pc = "loop"
    /\ queue # <<>>
    /\ ~DoesFit(Head(queue))
    /\ CanSplit(Head(queue))

(* C12: the head fits the budget.  For every source block and budget, and  *)
(* for the node and remainingSpace of every split the loop makes, a head   *)
(* that is not null measures at most the budget.                           *)
C12_HeadFitsBudget ==
    /\ AboutToSplit =>
          HeadFits(Head(queue).n, RemainingSpace(Head(queue)))
    /\ (pc = "idle" /\ pagesGen = 0) =>
          \A i \in 1..Len(surface) : \A b \in SplitBudgets :
              HeadFits(surface[i], b)


(* ------------------------------------------------------------ text runs *)
(* The elements splitNode is applied to or recurses into: the source       *)
(* blocks and their element children.                                      *)
ElementsOf(blocks) ==
    {blocks[i] : i \in 1..Len(blocks)}
        \cup UNION {{blocks[i].kids[k] :
                        k \in {k \in 1..Len(blocks[i].kids) :
                                  ~IsText(blocks[i].kids[k])}}
                    : i \in 1..Len(blocks)}

UnitsOf(part) == IF part = Null THEN <<>> ELSE part.units

(* The parts of splitTextNode are a cut of the token sequence after token  *)
(* k, the first k tokens fit the limit in the container and one more does  *)
(* not.                                                                     *)
TextSplitMaximal(textNode, maxLimit, container) ==
    LET words == SplitWords(textNode.units)
        parts == splitTextNode(textNode, maxLimit, container)
    IN /\ \E k \in 0..(Len(words) - 1) :
             /\ UnitsOf(parts[1]) = JoinWords(SubSeq(words, 1, k))
             /\ UnitsOf(parts[2]) = JoinWords(SubSeq(words, k + 1, Len(words)))
             /\ HeightWithText(container, words, k) <= maxLimit
             /\ HeightWithText(container, words, k + 1) > maxLimit
       /\ UnitsOf(parts[1]) \o UnitsOf(parts[2]) = textNode.units

(* splitNode(node, maxLimit) calls splitTextNode on child j when the       *)
(* children before it fit, child j does not, and more than the threshold   *)
(* is left.                                                                 *)
TextSplitCalled(node, maxLimit, j) ==
    /\ IsText(node.kids[j])
    /\ OffsetHeight(Clone1(node, SubSeq(node.kids, 1, j - 1))) <= maxLimit
    /\ OffsetHeight(Clone1(node, SubSeq(node.kids, 1, j))) > maxLimit
    /\ maxLimit - OffsetHeight(Clone1(node, SubSeq(node.kids, 1, j - 1)))
           > SplitThreshold

TextSplitsMaximal(node, maxLimit) ==
    \A j \in 1..Len(node.kids) :
        TextSplitCalled(node, maxLimit, j) =>
            TextSplitMaximal(node.kids[j], maxLimit,
                             Clone1(node, SubSeq(node.kids, 1, j - 1)))

(* C13: text is split at a token boundary with a maximal prefix.  For      *)
(* every text run that splitNode hands to splitTextNode, of a block of     *)
(* every kind or of an element child of one, under every budget (taken on  *)
(* the summaries of one block), and of the node the loop is about to split *)
(* under its remainingSpace: the two parts are a                           *)
(* prefix and the rest of the token sequence, the prefix is the longest    *)
(* that is at most the limit tall in the container, and the parts joined   *)
(* are the text.                                                            *)
C13_TextSplitMaximal ==
    /\ AboutToSplit =>
          TextSplitsMaximal(Head(queue).n, RemainingSpace(Head(queue)))
    /\ (pc = "idle" /\ pagesGen = 0 /\ Len(summary) = 1) =>
          \A n \in ElementsOf(surface) : \A b \in SplitBudgets :
              TextSplitsMaximal(n, b)

(* The loop has cut a text run: the last node of the last finished page    *)
(* ends with words of it and the fragment in front of the queue starts     *)
(* with the rest.                                                           *)
C13_Witness ==
    /\ pc = "loop"
    /\ newPages # <<>>
    /\ queue # <<>>
    /\ ~Head(queue).live
    /\ LET page == newPages[Len(newPages)]
           head == page[Len(page)]
           tail == Head(queue).n
       IN /\ head.id = tail.id
          /\ IsText(head.kids[Len(head.kids)])
          /\ IsText(tail.kids[1])
          /\ WordCount(head.kids[Len(head.kids)].units) >= 1
          /\ WordCount(tail.kids[1].units) >= 1


(* A node that is, or holds at any depth, a text node of no characters. *)
RECURSIVE HasEmptyText(_)
HasEmptyText(n) ==
    IF IsText(n) THEN n.units = <<>>
    ELSE \E k \in 1..Len(n.kids) : HasEmptyText(n.kids[k])

(* C14: when not even the first token of a text run fits, the head of      *)
(* splitTextNode is null, never a text node of no characters; so no page,  *)
(* finished, in the accumulator or committed, holds an empty text node.    *)
C14_NoEmptyHead ==
    /\ pc = "loop" =>
          /\ \A i \in 1..Len(newPages) : \A a \in 1..Len(newPages[i]) :
                ~HasEmptyText(newPages[i][a])
          /\ \A a \in 1..Len(currentPageNodes) :
                ~HasEmptyText(currentPageNodes[a])
    /\ Committed =>
          \A i \in 1..Len(pages) : \A a \in 1..Len(pages[i]) :
              ~HasEmptyText(pages[i][a])


(* ------------------------------------------------------ offending child *)
(* The first child of node whose addition makes clone1 taller than         *)
(* maxLimit; 0 when all children fit.                                      *)
Offending(node, maxLimit) ==
    LET over == {j \in 1..Len(node.kids) :
                    OffsetHeight(Clone1(node, SubSeq(node.kids, 1, j)))
                        > maxLimit}
    IN IF over = {} THEN 0
       ELSE CHOOSE j \in over : \A k \in over : j <= k

KidsOf(part) == IF part = Null THEN <<>> ELSE part.kids

(* The head holds nothing beyond the offending child and the tail ends     *)
(* with the children after it, whole and in order.                         *)
RestGoesToTail(node, maxLimit) ==
    LET j == Offending(node, maxLimit)
        n == Len(node.kids)
        parts == splitNode(node, maxLimit)
        c1 == KidsOf(parts[1])
        c2 == KidsOf(parts[2])
    IN j # 0 =>
          /\ Len(c1) <= j
          /\ Len(c2) >= n - j
          /\ SubSeq(c2, Len(c2) - (n - j) + 1, Len(c2))
                 = SubSeq(node.kids, j + 1, n)

OffendingMovedWhole(node, maxLimit) ==
    LET j == Offending(node, maxLimit)
        parts == splitNode(node, maxLimit)
    IN /\ KidsOf(parts[1]) = SubSeq(node.kids, 1, j - 1)
       /\ KidsOf(parts[2]) = SubSeq(node.kids, j, Len(node.kids))

(* Too little is left for the offending child, or it is not of a kind that *)
(* is split.                                                               *)
NotWorthSplitting(node, maxLimit) ==
    LET j == Offending(node, maxLimit)
        left == maxLimit
                  - OffsetHeight(Clone1(node, SubSeq(node.kids, 1, j - 1)))
    IN \/ left <= 20
       \/ ~(\/ IsText(node.kids[j])
            \/ node.kids[j].tag \in {"P", "DIV", "BLOCKQUOTE", "LI"})

ThresholdRespected(node, maxLimit) ==
    (Offending(node, maxLimit) # 0 /\ NotWorthSplitting(node, maxLimit))
        => OffendingMovedWhole(node, maxLimit)

(* C16: minimum usefulness threshold of the splitter.  When 20px or less   *)
(* is left after the children already in the head, or the offending child  *)
(* is neither text nor a P, DIV, BLOCKQUOTE or LI, the offending child and *)
(* all children after it go whole to the tail and the head keeps the       *)
(* children before it.  Checked for the blocks of every kind and their     *)
(* element children under every budget (taken on the summaries of one      *)
(* block) and for every split the loop makes.                              *)
C16_SplitThreshold ==
    /\ AboutToSplit =>
          ThresholdRespected(Head(queue).n, RemainingSpace(Head(queue)))
    /\ (pc = "idle" /\ pagesGen = 0 /\ Len(summary) = 1) =>
          \A n \in ElementsOf(surface) : \A b \in SplitBudgets :
              ThresholdRespected(n, b)

(* The loop has split a paragraph whose first child, an image taller than  *)
(* the page, is not of a kind that is split: the whole paragraph is the    *)
(* tail in front of the queue and no head was put on a page.               *)
C16_Witness ==
    /\ pc = "loop"
    /\ queue # <<>>
    /\ ~Head(queue).live
    /\ Head(queue).n.kids # <<>>
    /\ Head(queue).n.kids[1].tag = "IMG"
    /\ \E i \in 1..Len(summary) : Head(queue).n.kids = surface[i].kids


(* ------------------------------------------------------- allocator loop *)
(* An iteration that took the split branch: it alone leaves the            *)
(* accumulator empty.                                                      *)
SplitTaken == pc = "loop" /\ queue # <<>> /\ currentPageNodes' = <<>>

(* The places <<page, node>> of a page list that hold a node of this id. *)
PlacesOfId(ps, id) ==
    {p \in UNION {{<<i, a>> : a \in 1..Len(ps[i])} : i \in 1..Len(ps)} :
        ps[p[1]][p[2]].id = id}

(* C17: the loop splits the node in front of the queue only when it does   *)
(* not fit, is a P, UL, OL, BLOCKQUOTE or DIV and MAX_PAGE_HEIGHT minus    *)
(* the running height minus its top margin is above 40; a node of another  *)
(* kind that does not fit starts the next page; and in the page list that  *)
(* is set every source block of another kind is at exactly one place,      *)
(* whole.                                                                   *)
C17_SplitOnlySplittable ==
    [][/\ SplitTaken =>
             LET e == Head(queue)
             IN /\ currentHeight + TotalNodeHeight(e) > MAX_PAGE_HEIGHT
                /\ AllocSplittable(e.n)
                /\ MAX_PAGE_HEIGHT - currentHeight - MarginTop(e) > 40
       /\ (/\ pc = "loop"
           /\ queue # <<>>
           /\ ~AllocSplittable(Head(queue).n)
           /\ currentHeight + TotalNodeHeight(Head(queue)) > MAX_PAGE_HEIGHT)
             => /\ currentPageNodes' = <<Head(queue).n>>
                /\ newPages' = Flush(newPages, currentPageNodes)
                /\ queue' = Tail(queue)
       /\ (pc = "loop" /\ pc' = "idle") =>
             \A i \in 1..Len(summary) :
                 ~AllocSplittable(surface[i]) =>
                     /\ Cardinality(PlacesOfId(pages', surface[i].id)) = 1
                     /\ \A p \in PlacesOfId(pages', surface[i].id) :
                           pages'[p[1]][p[2]] = surface[i]]_vars

(* A heading that did not fit under a paragraph of 22 lines is the first   *)
(* node of the second page of the committed list, whole.                   *)
C17_Witness ==
    /\ Committed
    /\ Len(pages) >= 2
    /\ pages[2][1].tag = "H1"
    /\ pages[2][1] = surface[2]
    /\ PageHeight(pages[1]) + RenderedHeight(pages[2][1]) > MAX_PAGE_HEIGHT


(* The split the loop is about to make returns no head and no tail. *)
SplitFails ==
    /\ AboutToSplit
    /\ splitNode(Head(queue).n, RemainingSpace(Head(queue))) = <<Null, Null>>

OversizedAtomic(n) ==
    ~AllocSplittable(n) /\ RenderedHeight(n) > MAX_PAGE_HEIGHT

AloneOnItsPage(ps) ==
    \A i \in 1..Len(ps) : \A a \in 1..Len(ps[i]) :
        OversizedAtomic(ps[i][a]) => Len(ps[i]) = 1

(* C19: oversized atomic node.  A node that is not of a splittable kind    *)
(* and is taller than MAX_PAGE_HEIGHT with its margins is a source block,  *)
(* whole, and the only node of its page, in the finished pages of a pass   *)
(* and in the committed page list.                                         *)
C19_OversizedAlone ==
    /\ pc = "loop" => AloneOnItsPage(newPages)
    /\ Committed =>
          /\ AloneOnItsPage(pages)
          /\ \A i \in 1..Len(summary) :
                OversizedAtomic(surface[i]) =>
                    \E p \in 1..Len(pages) : pages[p] = <<surface[i]>>

(* A committed page list of a summary of two blocks in which an oversized  *)
(* atomic block has a page of its own and the other block another.         *)
C19_Witness ==
    /\ Committed
    /\ Len(summary) = 2
    /\ Len(pages) >= 2
    /\ \E p \in 1..Len(pages) : OversizedAtomicPage(pages[p])
    /\ \E p \in 1..Len(pages) : ~OversizedAtomicPage(pages[p])


(* The places <<page, node>> of a page list, and their order. *)
Places(ps) == UNION {{<<i, a>> : a \in 1..Len(ps[i])} : i \in 1..Len(ps)}

Before(p, q) == p[1] < q[1] \/ (p[1] = q[1] /\ p[2] < q[2])

(* Two parts of one block are the last node of a page and the first node   *)
(* of the next page, and every later block comes after the second part.    *)
CutsAreBreaks(ps) ==
    \A p, q \in Places(ps) :
        (Before(p, q) /\ ps[p[1]][p[2]].id = ps[q[1]][q[2]].id) =>
            /\ p[2] = Len(ps[p[1]])
            /\ q = <<p[1] + 1, 1>>
            /\ \A r \in Places(ps) :
                  ps[r[1]][r[2]].id > ps[q[1]][q[2]].id => Before(q, r)

(* C20: page break at the cut.  Every split attempt leaves the accumulator *)
(* empty with a running height of 0, finishes the page with the head as    *)
(* its last node, and puts the tail, if there is one, in front of the      *)
(* queue; and in the page list that is set the parts of a block are the    *)
(* last node of a page and the first node of the next, ahead of every      *)
(* block that followed it.                                                 *)
C20_BreakAtCut ==
    [][/\ AboutToSplit =>
             LET e == Head(queue)
                 parts == splitNode(e.n, RemainingSpace(e))
             IN /\ currentPageNodes' = <<>>
                /\ currentHeight' = 0
                /\ parts[1] # Null =>
                      /\ newPages' # <<>>
                      /\ LET page == newPages'[Len(newPages')]
                         IN page[Len(page)] = parts[1]
                /\ parts[2] # Null =>
                      /\ queue' # <<>>
                      /\ Head(queue').n = parts[2]
                      /\ Tail(queue') = Tail(queue)
       /\ (pc = "loop" /\ pc' = "idle") => CutsAreBreaks(pages')]_vars

(* A committed page list of a paragraph of 30 lines and a block after it:  *)
(* page 1 ends with the head, page 2 starts with the tail and goes on with *)
(* the block that followed.                                                *)
C20_Witness ==
    /\ Committed
    /\ Len(summary) = 2
    /\ Len(pages) >= 2
    /\ pages[1][Len(pages[1])].id = surface[1].id
    /\ pages[2][1].id = surface[1].id
    /\ Len(pages[2]) >= 2
    /\ pages[2][2] = surface[2]


(* --------------------------------------------------------------- margins *)
(* The nodes of a page list that are parts of the block of this id, in     *)
(* page order.                                                             *)
FirstPlace(ps, id) ==
    CHOOSE p \in PlacesOfId(ps, id) :
        \A q \in PlacesOfId(ps, id) : p = q \/ Before(p, q)

LastPlace(ps, id) ==
    CHOOSE p \in PlacesOfId(ps, id) :
        \A q \in PlacesOfId(ps, id) : p = q \/ Before(q, p)

(* The margins of the parts of block b in the page list: inward margins    *)
(* at a cut are zero, outward margins are those of b.                      *)
MarginsAtCuts(ps, b) ==
    LET at == PlacesOfId(ps, b.id)
        first == FirstPlace(ps, b.id)
        last == LastPlace(ps, b.id)
    IN at # {} =>
          /\ ps[first[1]][first[2]].mt = b.mt
          /\ ps[last[1]][last[2]].mb = b.mb
          /\ \A p \in at : p # last => ps[p[1]][p[2]].mb = 0
          /\ \A p \in at : p # first => ps[p[1]][p[2]].mt = 0

(* C21: margin handling at cuts.  In the committed page list a part that   *)
(* continues on a later page has bottom margin zero, a part that continues *)
(* from an earlier page has top margin zero, the first part has the top    *)
(* margin of its block and the last part its bottom margin; so a block     *)
(* that is whole on one page has both margins of the source block.         *)
C21_MarginsAtCuts ==
    Committed =>
        \A i \in 1..Len(summary) : MarginsAtCuts(pages, surface[i])


(* -------------------------------------------------------------- debounce *)
(* The page list is the pagination of the latest summary and nothing is    *)
(* pending.                                                                *)
Settled ==
    /\ pc = "idle"
    /\ timers = {}
    /\ pagesGen = gen
    /\ \E r \in results :
          /\ r.pass = gen
          /\ r.summary = summary
          /\ r.pages = pages
    /\ LeavesOfPages(pages) = LeavesOfSeq(Render(summary))

PageCount == Len(newPages) + (IF currentPageNodes # <<>> THEN 1 ELSE 0)

NoEmptyPage(ps) == \A i \in 1..Len(ps) : ps[i] # <<>>

(* C23: no empty page.  Every page the loop finishes and every page of the *)
(* list that is set holds at least one node; a pass starts with no page,   *)
(* an iteration adds at most one page to those of the pass, and the list   *)
(* that is set has exactly those pages, so there are never more pages than *)
(* items taken from the queue; an empty block sequence sets an empty list. *)
C23_NoEmptyPage ==
    [][/\ NoEmptyPage(newPages')
       /\ NoEmptyPage(pages')
       /\ (pc = "idle" /\ pc' = "loop") => PageCount' = 0
       /\ (pc = "loop" /\ queue # <<>>) => PageCount' <= PageCount + 1
       /\ (pc = "loop" /\ pc' = "idle") =>
             /\ Len(pages') = PageCount
             /\ summary = <<>> => pages' = <<>>]_vars

(* A split attempt that had nothing to flush: no head, an empty            *)
(* accumulator, and still no page after it.                                 *)
C23_Witness ==
    /\ pc = "loop"
    /\ queue # <<>>
    /\ ~Head(queue).live
    /\ currentPageNodes = <<>>
    /\ newPages = <<>>


(* --------------------------------------------------- measurement surface *)
(* A node that is, or holds at any depth, the temporary text node. *)
RECURSIVE HasTempText(_)
HasTempText(n) ==
    n = TempText \/ \E k \in 1..Len(n.kids) : HasTempText(n.kids[k])

(* A call of splitNode leaves the children of the hidden container as they *)
(* were and no temporary text node in its results.                         *)
SplitRestores(s, node, maxLimit) ==
    LET r == SplitNodeOn(s, node, maxLimit)
    IN /\ r[3] = s
       /\ ~HasTempText(r[1])
       /\ ~HasTempText(r[2])

(* C24: the measurement surface is restored.  Every call of splitNode, on  *)
(* a block of every kind or an element child of one under every budget,    *)
(* its recursive calls and its calls of splitTextNode included, leaves     *)
(* under the hidden container the children that were there and leaves the  *)
(* temporary text node in no clone; no iteration of the loop changes the   *)
(* children of the hidden container, and when the pass ends they are the   *)
(* source blocks.                                                           *)
C24_SurfaceRestored ==
    [][/\ (pc = "idle" /\ pagesGen = 0 /\ Len(summary) = 1) =>
             \A n \in ElementsOf(surface) : \A b \in SplitBudgets :
                 SplitRestores(surface, n, b)
       /\ pc = "loop" => surface' = surface
       /\ (pc = "loop" /\ pc' = "idle") => surface' = Render(summary)]_vars

(* The loop has split a list whose item was split by a recursive call, and *)
(* the hidden container holds the source blocks only.                      *)
C24_Witness ==
    /\ pc = "loop"
    /\ queue # <<>>
    /\ ~Head(queue).live
    /\ IsList(Head(queue).n)
    /\ Head(queue).n.kids[1] \notin SourceItems
    /\ surface = Render(summary)

(* ------------------------------------------------------------------ C25 *)
(* The pass that set the current page list was started by this mount. *)
OwnPass ==
    /\ pc = "loop" => passGen >= mountedAt
    /\ (mounted /\ pages # <<>>) =>
          /\ pagesGen >= mountedAt
          /\ \E r \in results : r.pass = pagesGen /\ r.pages = pages

(* Nothing is pending, running or committed while unmounted. *)
UnmountedQuiet == ~mounted => (timers = {} /\ pc = "idle" /\ pages = <<>>)

(* C25: unmounting the Notebook clears the pending repagination timer and *)
(* no page list is committed while it is unmounted; a remounted Notebook  *)
(* starts from an empty page list with one timer of its own, and the page *)
(* list it shows was committed by a pass started after the remount.       *)
C25_UnmountCancels ==
    /\ [](UnmountedQuiet /\ OwnPass)
    /\ [][(mounted /\ ~mounted') => (timers' = {} /\ pages' = <<>>)]_vars
    /\ [][(~mounted /\ mounted') =>
            (pages' = <<>> /\ timers' = {gen'} /\ mountedAt' = gen')]_vars

(* Remounted after the first timer was cancelled while pending (no pass  *)
(* of run 1 was ever committed or skipped), and the own pass committed.  *)
C25_Witness ==
    /\ mounted
    /\ mountedAt = 2
    /\ pages # <<>>
    /\ pagesGen = 2
    /\ ~skipped
    /\ \A r \in results : r.pass >= 2

(* ------------------------------------------------------------------ C26 *)
(* Every card before the current one was shown since the last restart. *)
NoCardSkipped == \A j \in 0..(nCards - 1) : j <= currentIndex => j \in shown

(* C26: for a non-empty card list, under every interleaving of the       *)
(* enabled user actions with the 1000ms and 600ms callbacks, currentIndex *)
(* stays in 0..cards.length-1 and no card is skipped.                     *)
C26_IndexInRange ==
    /\ currentIndex \in 0..(nCards - 1)
    /\ NoCardSkipped

(* ------------------------------------------------------------------ C27 *)
(* C27: in every reachable state 0 <= score <= cards.length, and restart *)
(* sets score and currentIndex to 0.                                     *)
C27_ScoreBound ==
    /\ [](score \in 0..nCards)
    /\ [][(completed /\ ~completed') => (score' = 0 /\ currentIndex' = 0)]_vars

(* ------------------------------------------------------------------ C28 *)
(* A regenerate call in flight goes away: its continuation has run. *)
RegenerateReturns == Len(regenReqs') < Len(regenReqs)

(* The summary of the session was made from the session's document. *)
SummaryOfSession == session # 0 => summaryOf = session

(* C28: a regenerate response is applied only to the session that asked  *)
(* for it: after a sign-out the late response creates no session, after  *)
(* a new upload it does not replace the new session's summary, and it    *)
(* does not clear isRegenerating while another request is in flight.     *)
C28_ResponseToRequester ==
    /\ []SummaryOfSession
    /\ [][(RegenerateReturns /\ session = 0) => session' = 0]_vars
    /\ [][(RegenerateReturns /\ regenReqs' # <<>>) => isRegenerating']_vars

(* ------------------------------------------------------------------ C29 *)
(* The continuation of an upload at stage st runs and the call is over. *)
UploadEnds(st) ==
    \E k \in 1..Len(uploads) :
        uploads[k].st = st /\ uploads' = Without(uploads, k)

(* The outcome of a failed upload. *)
UploadFailure ==
    /\ error' # "null"
    /\ session' = session
    /\ view' = "UPLOAD"
    /\ ~isProcessing'

(* C29: once handleFileUpload has set isProcessing, it is eventually    *)
(* false again; a successful generation sets the session and shows the  *)
(* dashboard; a file read error or an AI service error leaves error     *)
(* non-null, the session unchanged and the upload view in place.        *)
C29_UploadCompletes ==
    /\ isProcessing ~> ~isProcessing
    /\ [](isProcessing <=> uploads # <<>>)
    /\ [][UploadEnds("resolved") =>
            (session' # 0 /\ view' = "DASHBOARD" /\ ~isProcessing')]_vars
    /\ [][UploadEnds("unreadable") => UploadFailure]_vars
    /\ [][UploadEnds("rejected") => UploadFailure]_vars

(* The first file failed, the second one made the session: the only *)
(* mount of the Notebook is that of document 2.                     *)
C29_Witness ==
    /\ view = "DASHBOARD"
    /\ session = 2
    /\ ~isProcessing
    /\ nRegens = 0
    /\ gen = 1

(* ------------------------------------------------------------------ C30 *)
(* The catch block of handleRegenerateSummary runs. *)
RegenerateFails == logged' # logged

(* C30: when regenerateSummary rejects, the session and its summary are  *)
(* unchanged, isRegenerating is false again and the Notebook's layout    *)
(* effect does not run (no timer is set or cleared); while isRegenerating *)
(* is true no regenerate request is started, so at most one is in flight. *)
C30_FailureKeepsState ==
    /\ [][RegenerateFails =>
            /\ UNCHANGED <<session, summary, summaryOf, view, activeTab>>
            /\ UNCHANGED <<gen, timers, cleanup, surface, pages, mounted>>
            /\ ~isRegenerating']_vars
    /\ [][isRegenerating => Len(regenReqs') <= Len(regenReqs)]_vars
    /\ [](Len(regenReqs) <= 1 /\ (regenReqs # <<>> => isRegenerating))

(* The only regenerate request of a mounted Notebook's session failed: *)
(* the flag is down and the only effect run is that of the mount.      *)
C30_Witness ==
    /\ logged = 1
    /\ nRegens = 1
    /\ regenReqs = <<>>
    /\ ~isRegenerating
    /\ mounted
    /\ session = 1
    /\ gen = 1
    /\ timers = {1}

====
